---- MODULE Spec2Model ----
(***************************************************************************)
(* Dependency-aware service orchestration of the management UI backend:    *)
(* the dependency graph over the parsed compose registry                   *)
(* (core/dependency_graph.py), the static policy table and the selection   *)
(* validator (core/service_dependencies.py) and the stop operation of the  *)
(* orchestration service (services/docker_service.py).                     *)
(***************************************************************************)
EXTENDS FiniteSets, Integers, Sequences, TLC

VARIABLES services, graphCall, selCall, orch, loader, scanner, cleanup, server

vars == <<services, graphCall, selCall, orch, loader, scanner, cleanup, server>>

(***************************************************************************)
(* Bounds of the explored input space.                                     *)
(***************************************************************************)
\* longest list of names handed to get_start_order
MaxSelLen == 3
\* longest list of names handed to validate_selection
MaxSelected == 2

(***************************************************************************)
(* Generic helpers: Python list / set / sorted().                          *)
(***************************************************************************)
Range(s) == {s[i] : i \in DOMAIN s}

SeqsUpTo(S, n) == UNION {[1..k -> S] : k \in 0..n}

\* Service names of compose registries in the graph model; NameRank is the
\* string order sorted() uses on them.
Names == {"A", "B", "C"}

\* Service names of the registries in the orchestration model: the members
\* of the group "database".
OrchNames == {"neo4j", "postgres", "qdrant"}

NameRank == [n \in Names \cup OrchNames |->
                CASE n = "A" -> 1 [] n = "B" -> 2 [] n = "C" -> 3
                  [] n = "neo4j" -> 4 [] n = "postgres" -> 5 [] n = "qdrant" -> 6]

\* variant: descending name order
RECURSIVE sorted_descending(_)
sorted_descending(S) ==
    IF S = {} THEN <<>>
    ELSE LET m == CHOOSE x \in S : \A y \in S : NameRank[x] >= NameRank[y]
         IN <<m>> \o sorted_descending(S \ {m})

RECURSIVE sorted(_)
sorted(S) ==
    IF S = {} THEN <<>>
    ELSE LET m == CHOOSE x \in S : \A y \in S : NameRank[x] <= NameRank[y]
         IN <<m>> \o sorted(S \ {m})

(***************************************************************************)
(* ServiceDefinition and the registry ComposeParser.services.              *)
(***************************************************************************)
\* ServiceDefinition.depends_on: service -> condition
ServiceDefinition(deps) == [depends_on |-> [d \in deps |-> "service_started"]]

\* every registry over Names: a name is absent or defined with any set of
\* dependency names (self, other defined names, or names no document defines)
Registries ==
    UNION {[D -> {ServiceDefinition(deps) : deps \in SUBSET Names}] : D \in SUBSET Names}

\* dict.keys() of depends_on
DependsOnKeys(reg, s) == DOMAIN reg[s].depends_on

(***************************************************************************)
(* DependencyGraph.get_start_order                                         *)
(***************************************************************************)
\* variant: any() in place of all()
InBatch_Any(reg, service, resolved) ==
    \/ service \notin DOMAIN reg
    \/ \E dep \in DependsOnKeys(reg, service) : dep \in resolved

\* variant: a dependency that no document defines counts as resolved
InBatch_Tolerant(reg, service, resolved) ==
    \/ service \notin DOMAIN reg
    \/ \A dep \in DependsOnKeys(reg, service) : dep \in resolved \/ dep \notin DOMAIN reg

\* deps_satisfied of one pass, and the unknown-service branch
InBatch(reg, service, resolved) ==
    \/ service \notin DOMAIN reg
    \/ \A dep \in DependsOnKeys(reg, service) : dep \in resolved

\* variant: a pass places one service only, the first by name
RECURSIVE StartOrderLoop_OnePerPass(_, _, _, _, _, _)
StartOrderLoop_OnePerPass(reg, remaining, resolved, result, iteration, max_iterations) ==
    IF remaining = {} \/ ~(iteration < max_iterations)
    THEN [raised |-> FALSE, result |-> result, remaining |-> remaining,
          iteration |-> iteration]
    ELSE LET ready == {s \in remaining : InBatch(reg, s, resolved)}
             batch == IF ready = {} THEN {} ELSE {sorted(ready)[1]}
         IN IF batch = {}
            THEN [raised |-> TRUE, result |-> result, remaining |-> remaining,
                  iteration |-> iteration]
            ELSE StartOrderLoop_OnePerPass(reg, remaining \ batch, resolved \cup batch,
                                           Append(result, sorted(batch)), iteration + 1,
                                           max_iterations)

\* the while loop: one recursion per pass
RECURSIVE StartOrderLoop(_, _, _, _, _, _)
StartOrderLoop(reg, remaining, resolved, result, iteration, max_iterations) ==
    IF remaining = {} \/ ~(iteration < max_iterations)
    THEN [raised |-> FALSE, result |-> result, remaining |-> remaining,
          iteration |-> iteration]
    ELSE LET batch == {s \in remaining : InBatch(reg, s, resolved)}
         IN IF batch = {}
            THEN [raised |-> TRUE, result |-> result, remaining |-> remaining,
                  iteration |-> iteration]
            ELSE StartOrderLoop(reg, remaining \ batch, resolved \cup batch,
                                Append(result, sorted(batch)), iteration + 1,
                                max_iterations)

\* variant: every registry name counts as resolved, selected or not
InitiallyResolved_AllRegistered(reg, svcs) == DOMAIN reg

\* resolved before the first pass: registry names that are not in the list
InitiallyResolved(reg, svcs) == {svc \in DOMAIN reg : svc \notin Range(svcs)}

\* variant: a single pass
MaxIterations_One(svcs) == 1

\* len(services) + 1
MaxIterations(svcs) == Len(svcs) + 1

get_start_order(reg, svcs) ==
    StartOrderLoop(reg, Range(svcs), InitiallyResolved(reg, svcs), <<>>, 0,
                   MaxIterations(svcs))

(***************************************************************************)
(* DependencyGraph.get_dependents                                          *)
(* The Python function recurses without a visited set; a call whose         *)
(* argument is already on the call path repeats forever and ends in         *)
(* RecursionError, which is reported in the overflow field.                 *)
(***************************************************************************)
DirectDependents(reg, service) ==
    {name \in DOMAIN reg : service \in DependsOnKeys(reg, name)}

RECURSIVE DependentsRec(_, _, _)
DependentsRec(reg, service, path) ==
    IF service \in path
    THEN [overflow |-> TRUE, set |-> {}]
    ELSE LET direct == DirectDependents(reg, service)
             sub == [n \in direct |-> DependentsRec(reg, n, path \cup {service})]
         IN [overflow |-> \E n \in direct : sub[n].overflow,
             set |-> direct \cup UNION {sub[n].set : n \in direct}]

\* variant: direct dependents only, no recursion
get_dependents_direct(reg, service) ==
    [overflow |-> FALSE, set |-> DirectDependents(reg, service)]

get_dependents(reg, service) == DependentsRec(reg, service, {})

(***************************************************************************)
(* DependencyGraph.get_dependencies: the same recursion over the            *)
(* dependency edges, again without a visited set.                           *)
(***************************************************************************)
RECURSIVE DependenciesRec(_, _, _)
DependenciesRec(reg, service, path) ==
    IF service \in path
    THEN [overflow |-> TRUE, set |-> {}]
    ELSE IF service \notin DOMAIN reg
    THEN [overflow |-> FALSE, set |-> {}]
    ELSE LET deps == DependsOnKeys(reg, service)
             sub == [d \in deps |-> DependenciesRec(reg, d, path \cup {service})]
         IN [overflow |-> \E d \in deps : sub[d].overflow,
             set |-> deps \cup UNION {sub[d].set : d \in deps}]

get_dependencies(reg, service) == DependenciesRec(reg, service, {})

(***************************************************************************)
(* DockerService.stop_service                                              *)
(***************************************************************************)
\* outcomes of DockerClient.compose_down seen by stop_service
DriverOutcomes == {"rc0", "rc1", "exception"}

NoWarning == [present |-> FALSE, service |-> "", dependents |-> {}, message |-> <<>>]

DependencyWarning(name, dependents) ==
    [present |-> TRUE, service |-> name, dependents |-> dependents,
     message |-> sorted(dependents)]

NoStop == [raised |-> FALSE, success |-> FALSE, message |-> "", error |-> "",
           warning |-> NoWarning, down |-> <<>>]

stop_service(reg, name, force, outcome) ==
    IF name \notin DOMAIN reg
    THEN [NoStop EXCEPT !.message = "not found"]
    ELSE LET dependents == get_dependents(reg, name)
             warning == IF dependents.set # {} /\ ~force
                        THEN DependencyWarning(name, dependents.set)
                        ELSE NoWarning
         IN IF dependents.overflow
            THEN [NoStop EXCEPT !.raised = TRUE, !.error = "RecursionError"]
            ELSE CASE outcome = "rc0" ->
                        [NoStop EXCEPT !.success = TRUE, !.message = "stopped successfully",
                                       !.warning = warning, !.down = <<name>>]
                   [] outcome = "rc1" ->
                        [NoStop EXCEPT !.message = "Failed to stop", !.error = "stderr",
                                       !.warning = warning, !.down = <<name>>]
                   [] outcome = "exception" ->
                        [NoStop EXCEPT !.message = "exception text",
                                       !.error = "exception text",
                                       !.warning = warning, !.down = <<name>>]

(***************************************************************************)
(* The static policy table SERVICE_CONFIGS (core/service_dependencies.py). *)
(***************************************************************************)
ServiceConfig(display_name, dependencies, required, profiles) ==
    [display_name |-> display_name, dependencies |-> dependencies,
     required |-> required, profiles |-> profiles]

SERVICE_CONFIGS ==
    "vector" :> ServiceConfig("Vector", <<>>, TRUE, <<>>) @@
    "db" :> ServiceConfig("Database", <<"vector">>, TRUE, <<>>) @@
    "analytics" :> ServiceConfig("Analytics", <<"db">>, TRUE, <<>>) @@
    "kong" :> ServiceConfig("Kong API Gateway", <<"analytics">>, TRUE, <<>>) @@
    "auth" :> ServiceConfig("Auth (GoTrue)", <<"db", "analytics">>, FALSE, <<>>) @@
    "rest" :> ServiceConfig("REST API (PostgREST)", <<"db", "analytics">>, FALSE, <<>>) @@
    "realtime" :> ServiceConfig("Realtime", <<"db", "analytics">>, FALSE, <<>>) @@
    "storage" :> ServiceConfig("Storage", <<"db", "rest", "imgproxy">>, FALSE, <<>>) @@
    "imgproxy" :> ServiceConfig("Image Proxy", <<>>, FALSE, <<>>) @@
    "meta" :> ServiceConfig("Postgres Meta", <<"db", "analytics">>, FALSE, <<>>) @@
    "functions" :> ServiceConfig("Edge Functions", <<"analytics">>, FALSE, <<>>) @@
    "studio" :> ServiceConfig("Studio", <<"analytics">>, FALSE, <<>>) @@
    "supavisor" :> ServiceConfig("Supavisor (Pooler)", <<"db", "analytics">>, FALSE, <<>>) @@
    "ollama-cpu" :> ServiceConfig("Ollama (CPU)", <<>>, FALSE, <<"cpu">>) @@
    "ollama-gpu" :> ServiceConfig("Ollama (NVIDIA GPU)", <<>>, FALSE, <<"gpu-nvidia">>) @@
    "ollama-gpu-amd" :> ServiceConfig("Ollama (AMD GPU)", <<>>, FALSE, <<"gpu-amd">>) @@
    "open-webui" :> ServiceConfig("Open WebUI", <<>>, FALSE, <<>>) @@
    "flowise" :> ServiceConfig("Flowise", <<>>, FALSE, <<>>) @@
    "n8n-import" :> ServiceConfig("n8n Import", <<"db">>, FALSE, <<>>) @@
    "n8n" :> ServiceConfig("n8n", <<"n8n-import">>, FALSE, <<>>) @@
    "qdrant" :> ServiceConfig("Qdrant", <<>>, FALSE, <<>>) @@
    "neo4j" :> ServiceConfig("Neo4j", <<>>, FALSE, <<>>) @@
    "postgres" :> ServiceConfig("Postgres (Langfuse)", <<>>, FALSE, <<>>) @@
    "redis" :> ServiceConfig("Redis/Valkey", <<>>, FALSE, <<>>) @@
    "clickhouse" :> ServiceConfig("ClickHouse", <<>>, FALSE, <<>>) @@
    "minio" :> ServiceConfig("MinIO", <<>>, FALSE, <<>>) @@
    "langfuse-worker" :> ServiceConfig("Langfuse Worker", <<"postgres", "minio", "redis", "clickhouse">>, FALSE, <<>>) @@
    "langfuse-web" :> ServiceConfig("Langfuse", <<"postgres", "minio", "redis", "clickhouse">>, FALSE, <<>>) @@
    "caddy" :> ServiceConfig("Caddy", <<>>, TRUE, <<>>) @@
    "searxng" :> ServiceConfig("SearXNG", <<>>, FALSE, <<>>)

\* the keys of SERVICE_CONFIGS in the order of the table
ConfigOrder ==
    <<"vector", "db", "analytics", "kong", "auth", "rest", "realtime",
    "storage", "imgproxy", "meta", "functions", "studio", "supavisor",
    "ollama-cpu", "ollama-gpu", "ollama-gpu-amd", "open-webui", "flowise",
    "n8n-import", "n8n", "qdrant", "neo4j", "postgres", "redis",
    "clickhouse", "minio", "langfuse-worker", "langfuse-web", "caddy",
    "searxng">>

\* a service name the policy table has no entry for
UnknownName == "unlisted"

SelectableNames == DOMAIN SERVICE_CONFIGS \cup {UnknownName}

\* schemas/setup.py Profile
Profiles == {"cpu", "gpu-nvidia", "gpu-amd", "none"}

(***************************************************************************)
(* get_all_dependencies                                                    *)
(***************************************************************************)
RECURSIVE get_all_dependencies(_, _)
get_all_dependencies(service_name, visited) ==
    IF service_name \in visited THEN {}
    ELSE IF service_name \notin DOMAIN SERVICE_CONFIGS THEN {}
    ELSE LET deps == Range(SERVICE_CONFIGS[service_name].dependencies)
         IN deps \cup UNION {get_all_dependencies(dep, visited \cup {service_name}) :
                                dep \in deps}

(***************************************************************************)
(* get_required_for_selection: a dict, modelled as a function from its     *)
(* keys to the list of requesters.                                         *)
(***************************************************************************)
RECURSIVE Filter(_, _)
Filter(s, keep) ==
    IF s = <<>> THEN <<>>
    ELSE (IF Head(s) \in keep THEN <<Head(s)>> ELSE <<>>) \o Filter(Tail(s), keep)

\* the first loop: required[dep] lists, in list order, the selected services
\* whose dependencies hold dep
RequestedDeps(selected) ==
    UNION {get_all_dependencies(selected[i], {}) : i \in DOMAIN selected}

Requesters(selected, dep) ==
    LET idx == {i \in DOMAIN selected : dep \in get_all_dependencies(selected[i], {})}
        RECURSIVE Collect(_)
        Collect(i) == IF i > Len(selected) THEN <<>>
                      ELSE (IF i \in idx THEN <<selected[i]>> ELSE <<>>) \o Collect(i + 1)
    IN Collect(1)

\* the second loop: the always-required services
AlwaysRequired == {name \in DOMAIN SERVICE_CONFIGS : SERVICE_CONFIGS[name].required}

CoreReason == <<"(core infrastructure)">>

\* variant: the second loop is missing
get_required_for_selection_deps_only(selected) ==
    [dep \in RequestedDeps(selected) |-> Requesters(selected, dep)]

\* variant: the second loop tests "name not in selected"
get_required_for_selection_unless_selected(selected) ==
    LET requested == RequestedDeps(selected)
    IN [dep \in requested \cup (AlwaysRequired \ Range(selected)) |->
            IF dep \in requested THEN Requesters(selected, dep) ELSE CoreReason]

\* variant: an always-required service is tagged as core infrastructure
\* whether or not a selected service depends on it
get_required_for_selection_core_first(selected) ==
    LET requested == RequestedDeps(selected)
    IN [dep \in requested \cup AlwaysRequired |->
            IF dep \in AlwaysRequired THEN CoreReason ELSE Requesters(selected, dep)]

get_required_for_selection(selected) ==
    LET requested == RequestedDeps(selected)
    IN [dep \in requested \cup AlwaysRequired |->
            IF dep \in requested THEN Requesters(selected, dep) ELSE CoreReason]

(***************************************************************************)
(* validate_selection                                                      *)
(***************************************************************************)
\* variant: the selected services are not left out
AutoEnabledKeys_All(required, selected) ==
    {dep \in DOMAIN required : dep \in DOMAIN SERVICE_CONFIGS}

\* the keys the first loop of validate_selection puts in auto_enabled
AutoEnabledKeys(required, selected) ==
    {dep \in DOMAIN required : dep \notin Range(selected) /\ dep \in DOMAIN SERVICE_CONFIGS}

\* requesters[:3]
FirstThree(requesters) ==
    SubSeq(requesters, 1, IF Len(requesters) < 3 THEN Len(requesters) ELSE 3)

\* variant: profile "none" is not exempt
ProfileMismatch_NoneChecked(service, profile) ==
    /\ service \in DOMAIN SERVICE_CONFIGS
    /\ SERVICE_CONFIGS[service].profiles # <<>>
    /\ profile \notin Range(SERVICE_CONFIGS[service].profiles)

\* the test of the second loop of validate_selection
ProfileMismatch(service, profile) ==
    /\ service \in DOMAIN SERVICE_CONFIGS
    /\ SERVICE_CONFIGS[service].profiles # <<>>
    /\ profile \notin Range(SERVICE_CONFIGS[service].profiles)
    /\ profile # "none"

\* the warning text: display name, required profiles, given profile
Warning(service, profile) ==
    [display_name |-> SERVICE_CONFIGS[service].display_name,
     requires |-> SERVICE_CONFIGS[service].profiles,
     selected |-> profile]

RECURSIVE Warnings(_, _)
Warnings(selected, profile) ==
    IF selected = <<>> THEN <<>>
    ELSE (IF ProfileMismatch(Head(selected), profile)
          THEN <<Warning(Head(selected), profile)>> ELSE <<>>)
         \o Warnings(Tail(selected), profile)

\* variant: a profile mismatch is an error
validate_selection_strict(selected, profile) ==
    LET required == get_required_for_selection(selected)
        errors == Warnings(selected, profile)
        auto_enabled == [dep \in AutoEnabledKeys(required, selected) |->
                            [reason |-> FirstThree(required[dep]),
                             required_by |-> required[dep]]]
    IN [valid |-> Len(errors) = 0, errors |-> errors, warnings |-> <<>>,
        auto_enabled |-> auto_enabled,
        total_services |-> Len(selected) + Cardinality(DOMAIN auto_enabled)]

validate_selection(selected, profile) ==
    LET required == get_required_for_selection(selected)
        errors == <<>>
        warnings == Warnings(selected, profile)
        auto_enabled == [dep \in AutoEnabledKeys(required, selected) |->
                            [reason |-> FirstThree(required[dep]),
                             required_by |-> required[dep]]]
    IN [valid |-> Len(errors) = 0, errors |-> errors, warnings |-> warnings,
        auto_enabled |-> auto_enabled,
        total_services |-> Len(selected) + Cardinality(DOMAIN auto_enabled)]

(***************************************************************************)
(* Orchestration requests (api/routes/services.py, DockerService).  A      *)
(* request runs step by step: the route, the DockerService method, the     *)
(* call to the Process Driver (DockerClient) and its return.               *)
(***************************************************************************)
\* SERVICE_GROUPS of core/dependency_graph.py: group id -> declared members
SERVICE_GROUPS ==
    [supabase |-> <<"db", "kong", "auth", "rest", "realtime", "storage", "studio",
                    "meta", "functions", "analytics", "vector", "imgproxy",
                    "supavisor">>,
     core_ai |-> <<"ollama-cpu", "ollama-gpu", "ollama-gpu-amd", "open-webui",
                   "flowise">>,
     workflow |-> <<"n8n", "n8n-import">>,
     database |-> <<"postgres", "qdrant", "neo4j">>,
     observability |-> <<"langfuse-web", "langfuse-worker", "clickhouse", "minio">>,
     infrastructure |-> <<"caddy", "redis", "searxng">>]

\* group ids a request may carry: two of the table and one it does not hold
GroupIds == {"database", "workflow", "nogroup"}

\* a ServiceDefinition with its profiles list
ProfiledDefinition(deps, profiles) ==
    [depends_on |-> [d \in deps |-> "service_started"], profiles |-> profiles]

\* the definitions a name can have in the orchestration model: at most one
\* dependency and no profile, or no dependency and one or two profiles
ProfiledDefinitions ==
    {ProfiledDefinition(deps, <<>>) : deps \in {{}} \cup {{d} : d \in OrchNames}}
    \cup {ProfiledDefinition({}, profiles) : profiles \in {<<"cpu">>, <<"gpu-nvidia", "cpu">>}}

OrchRegistries == UNION {[D -> ProfiledDefinitions] : D \in SUBSET OrchNames}

\* Optional[str] profile of ServiceActionRequest: None, the empty string or a name
None == "None"

RequestProfiles == {None, "", "cpu", "gpu-nvidia", "gpu-amd"}

Falsy(profile) == profile \in {None, ""}

\* variant: sorted member names
get_groups_sorted(reg) ==
    LET existing(g) == sorted(Range(SERVICE_GROUPS[g]) \cap DOMAIN reg)
    IN [g \in {h \in DOMAIN SERVICE_GROUPS : existing(h) # <<>>} |-> existing(g)]

\* DependencyGraph.get_groups: group id -> members that exist, in declared order
get_groups(reg) ==
    LET existing(g) == Filter(SERVICE_GROUPS[g], DOMAIN reg)
    IN [g \in {h \in DOMAIN SERVICE_GROUPS : existing(h) # <<>>} |-> existing(g)]

\* variant: the last declared profile is the default
ResolveProfile_Last(svc_def, profile) ==
    IF svc_def.profiles # <<>> /\ profile \notin Range(svc_def.profiles) /\ Falsy(profile)
    THEN svc_def.profiles[Len(svc_def.profiles)]
    ELSE profile

\* start_service: the profile handed to compose_up
ResolveProfile(svc_def, profile) ==
    IF svc_def.profiles # <<>> /\ profile \notin Range(svc_def.profiles) /\ Falsy(profile)
    THEN svc_def.profiles[1]
    ELSE profile

\* subprocess.CompletedProcess.stdout / .stderr and str(e) of a driver exception
Stdout == "stdout"
Stderr == "stderr"
ExceptionText == "exception text"

\* ServiceActionResponse
NoResponse == [success |-> FALSE, message |-> "", action |-> "",
               output |-> None, error |-> None]

NotFoundResponse(action) ==
    [NoResponse EXCEPT !.message = "not found", !.action = action]

\* variant: the return code is not looked at
ActionResponse_AnyReturncode(action, outcome) ==
    IF outcome = "exception"
    THEN [NoResponse EXCEPT !.message = ExceptionText, !.action = action,
                            !.error = ExceptionText]
    ELSE [NoResponse EXCEPT !.success = TRUE, !.message = "successfully",
                            !.action = action, !.output = Stdout]

\* the try / except around the driver call in start_service, stop_service
\* and restart_service
ActionResponse(action, outcome) ==
    CASE outcome = "rc0" ->
            [NoResponse EXCEPT !.success = TRUE, !.message = "successfully",
                               !.action = action, !.output = Stdout]
      [] outcome = "rc1" ->
            [NoResponse EXCEPT !.message = "Failed to", !.action = action,
                               !.error = Stderr]
      [] outcome = "exception" ->
            [NoResponse EXCEPT !.message = ExceptionText, !.action = action,
                               !.error = ExceptionText]

\* one call to DockerClient.compose_up / compose_down / compose_restart
DriverCall(cmd, name, profile, environment) ==
    [cmd |-> cmd, services |-> <<name>>, profile |-> profile,
     environment |-> environment]

\* variant: declared order
StopGroupOrder_Declared(members) == members

\* reversed(services) in stop_service_group
StopGroupOrder(members) == [i \in DOMAIN members |-> members[Len(members) + 1 - i]]

\* the request being served: route (op), DockerService method (call), inputs,
\* position (pc), the driver calls issued so far and the outcome
NoOrch == [pc |-> "idle", op |-> "none", call |-> "none", name |-> "",
           profile |-> None, environment |-> "private", force |-> FALSE,
           group |-> "", members |-> <<>>, idx |-> 0, results |-> <<>>,
           depsComputed |-> FALSE, dependents |-> {}, dependencies |-> {},
           warning |-> NoWarning, calls |-> <<>>, inFlight |-> 0,
           outcome |-> "", response |-> NoResponse, raised |-> FALSE,
           status |-> 0, groupSuccess |-> FALSE]

(***************************************************************************)
(* The topology loader ComposeParser (core/compose_parser.py).  A compose  *)
(* document is absent, fails in yaml.safe_load with YAMLError, cannot be   *)
(* decoded as text (UnicodeDecodeError, not a YAMLError), is empty, is a   *)
(* mapping without "services", is a mapping with "services: null", is a   *)
(* plain scalar holding the word services, or maps service names to their  *)
(* configuration.                                                          *)
(* The environment of a service is not part of the model.                  *)
(***************************************************************************)
LoaderNames == {"db", "n8n"}

\* depends_on of a service configuration: absent, a list of names, or a map
\* from a name to a mapping with condition, a mapping without, or null
NoDependsOn == [form |-> "absent", entries |-> <<>>]

DependsOnList(names) == [form |-> "list", entries |-> [d \in names |-> ""]]

DependsOnMap(entries) == [form |-> "map", entries |-> entries]

\* one entry under "services": not a mapping, or a mapping with these keys
\* (image "" when the key is absent does not differ from the default)
NotAMapping ==
    [isdict |-> FALSE, image |-> "", profiles |-> <<>>, depends_on |-> NoDependsOn,
     healthcheck |-> FALSE, ports |-> <<>>]

ServiceEntry(image, profiles, depends_on, healthcheck, ports) ==
    [isdict |-> TRUE, image |-> image, profiles |-> profiles,
     depends_on |-> depends_on, healthcheck |-> healthcheck, ports |-> ports]

\* the configurations a name can have in a document of the loader model
ServiceEntries ==
    {NotAMapping,
     ServiceEntry("", <<>>, NoDependsOn, FALSE, <<>>),
     ServiceEntry("postgres:15", <<>>, DependsOnList({"vector"}), TRUE, <<"5432:5432">>),
     ServiceEntry("n8n:latest", <<"cpu">>,
                  DependsOnMap([d \in {"db", "n8n-import", "redis"} |->
                                   CASE d = "db" -> "service_healthy"
                                     [] d = "n8n-import" -> "service_completed_successfully"
                                     [] OTHER -> "nocondition"]),
                  FALSE, <<>>),
     ServiceEntry("img", <<>>, DependsOnMap([d \in {"db"} |-> "null"]), TRUE, <<>>)}

AbsentDocument == [kind |-> "absent", services |-> <<>>]

Documents ==
    {[kind |-> k, services |-> <<>>] :
        k \in {"absent", "yaml_error", "undecodable", "empty", "no_services",
               "services_null", "services_text"}}
    \cup {[kind |-> "services", services |-> m] :
              m \in UNION {[D -> ServiceEntries] : D \in SUBSET LoaderNames}}

\* variant: every dependency gets service_started
ExtractDependsOn_AllStarted(deps_config) ==
    [d \in DOMAIN deps_config.entries |-> "service_started"]

\* the depends_on dict built from a configuration (lines 56-66)
ExtractDependsOn(deps_config) ==
    CASE deps_config.form = "list" ->
            [d \in DOMAIN deps_config.entries |-> "service_started"]
      [] deps_config.form = "map" ->
            [d \in DOMAIN deps_config.entries |->
                IF deps_config.entries[d] \in {"nocondition", "null"}
                THEN "service_started"
                ELSE deps_config.entries[d]]
      [] OTHER -> <<>>

\* the ServiceDefinition built for one entry (lines 76-85)
ParsedDefinition(name, config, source) ==
    [name |-> name, image |-> config.image, compose_file |-> source,
     profiles |-> config.profiles, depends_on |-> ExtractDependsOn(config.depends_on),
     has_healthcheck |-> config.healthcheck, ports |-> config.ports]

\* the names a document gives a definition
DefinedNames(doc) == {n \in DOMAIN doc.services : doc.services[n].isdict}

\* the documents on which _parse_file raises: the read fails with an error
\* that is not a YAMLError (line 41), or compose.get / .items() is applied
\* to a str or to None (line 49)
Raising(doc) == doc.kind \in {"undecodable", "services_null", "services_text"}

\* variant: a name already in the registry keeps its definition
parse_file_keep_first(reg, doc, source) ==
    IF doc.kind # "services"
    THEN [services |-> reg, raised |-> Raising(doc)]
    ELSE [services |-> [n \in DOMAIN reg \cup DefinedNames(doc) |->
                            IF n \in DOMAIN reg
                            THEN reg[n]
                            ELSE ParsedDefinition(n, doc.services[n], source)],
          raised |-> FALSE]

\* ComposeParser._parse_file on a document that exists
parse_file(reg, doc, source) ==
    IF doc.kind # "services"
    THEN [services |-> reg, raised |-> Raising(doc)]
    ELSE [services |-> [n \in DOMAIN reg \cup DefinedNames(doc) |->
                            IF n \in DefinedNames(doc)
                            THEN ParsedDefinition(n, doc.services[n], source)
                            ELSE reg[n]],
          raised |-> FALSE]

\* the two documents on disk and the position of ComposeParser.__init__
NoLoader == [pc |-> "idle", main |-> AbsentDocument, supabase |-> AbsentDocument]

(***************************************************************************)
(* PortScanner (core/port_scanner.py).  The host services and the ports of *)
(* running containers are the environment of a scanner; _reserved_ports is *)
(* its state.  The requested default ports lie at the top of the range.    *)
(***************************************************************************)
MaxScans == 3

\* if port > 65535: break
MaxPortNumber == 65535

\* max_attempts: int = 100
max_attempts == 100

ScanPorts == {65534, 65535}

PortNames == {"http", "api"}

ScanServices == {"service1", "service2"}

\* default_ports: a dict in insertion order, as a list of its items
DefaultPorts ==
    {<<[port_name |-> n, port |-> q]>> : n \in PortNames, q \in ScanPorts}
    \cup {d \in {<<[port_name |-> n, port |-> q], [port_name |-> m, port |-> r]>> :
                     n \in PortNames, m \in PortNames, q \in ScanPorts, r \in ScanPorts} :
              d[1].port_name # d[2].port_name}

PortStatus(port, available, used_by) ==
    [port |-> port, available |-> available, used_by |-> used_by]

\* is_port_available: (available, used_by)
is_port_available(sc, port, check_reserved) ==
    IF check_reserved /\ port \in sc.reserved
    THEN [available |-> FALSE, used_by |-> "reserved for another service"]
    ELSE IF port \in sc.host
    THEN [available |-> FALSE, used_by |-> "host service"]
    ELSE IF port \in sc.docker_ports
    THEN [available |-> FALSE, used_by |-> "Docker"]
    ELSE [available |-> TRUE, used_by |-> None]

RECURSIVE FindFrom(_, _, _)
FindFrom(sc, start_port, offset) ==
    IF offset >= max_attempts THEN start_port
    ELSE LET port == start_port + offset
         IN IF port > MaxPortNumber THEN start_port
            ELSE IF is_port_available(sc, port, TRUE).available THEN port
            ELSE FindFrom(sc, start_port, offset + 1)

find_available_port(sc, start_port) == FindFrom(sc, start_port, 0)

\* the loop of scan_service_ports over default_ports.items()
RECURSIVE ScanLoop(_, _, _)
ScanLoop(sc, default_ports, acc) ==
    IF default_ports = <<>> THEN acc
    ELSE LET port_name == Head(default_ports).port_name
             port == Head(default_ports).port
             now == [sc EXCEPT !.reserved = acc.reserved]
             checked == is_port_available(now, port, FALSE)
             status == IF checked.available /\ port \in acc.reserved
                       THEN PortStatus(port, FALSE, "reserved for another service")
                       ELSE PortStatus(port, checked.available, checked.used_by)
             suggested_port == IF status.available THEN port
                               ELSE find_available_port(now, port + 1)
         IN ScanLoop(sc, Tail(default_ports),
                     [reserved |-> acc.reserved \cup {suggested_port},
                      ports |-> (port_name :> status) @@ acc.ports,
                      all_available |-> acc.all_available /\ status.available,
                      suggested_ports |-> (port_name :> suggested_port) @@ acc.suggested_ports])

\* scan_service_ports: the PortScanResult and the reserved ports after it
scan_service_ports(sc, service_name, default_ports) ==
    LET done == ScanLoop(sc, default_ports,
                         [reserved |-> sc.reserved, ports |-> <<>>,
                          all_available |-> TRUE, suggested_ports |-> <<>>])
    IN [reserved |-> done.reserved,
        result |-> [service_name |-> service_name, ports |-> done.ports,
                    all_available |-> done.all_available,
                    suggested_ports |-> done.suggested_ports]]

\* a scanner: its environment, its reserved ports, and the results returned
\* since the last clear_reserved_ports
NoScanner == [host |-> {}, docker_ports |-> {}, reserved |-> {}, results |-> <<>>,
              scans |-> 0]

(***************************************************************************)
(* cleanup.py: the flags of the command line, what the operator types at   *)
(* the two prompts, and what exists on the machine.                        *)
(***************************************************************************)
\* what the operator types when asked about .env, and after .strip().lower()
EnvInputs == {"", "Y", "n", " No ", "x"}

StripLower(response) ==
    CASE response = "Y" -> "y"
      [] response = " No " -> "no"
      [] OTHER -> response

\* what the operator types at the confirmation prompt
ConfirmInputs == {"DELETE", "delete", "DELETE ", ""}

\* what exists: nothing of the project, only the .env file, or more
Leftovers == {"nothing", "env_only", "resources"}

\* variant: the confirmation ignores case and surrounding blanks
confirm_cleanup_lenient(response) == response \in {"DELETE", "delete", "DELETE "}

\* confirm_cleanup: response == "DELETE"
confirm_cleanup(response) == response = "DELETE"

\* preview_cleanup returns True if anything was found to delete
preview_cleanup(leftovers, preserve_env) ==
    \/ leftovers = "resources"
    \/ leftovers = "env_only" /\ ~preserve_env

\* a destructive step of main, with its arguments
CleanupStep(step, preserve_env) ==
    [step |-> step, dry_run |-> FALSE, preserve_env |-> preserve_env]

PreviewStep(preserve_env) ==
    [step |-> "preview_cleanup", dry_run |-> TRUE, preserve_env |-> preserve_env]

NoCleanup ==
    [pc |-> "idle", dry_run |-> FALSE, preserve_env_flag |-> FALSE, force |-> FALSE,
     leftovers |-> "nothing", env_input |-> "", confirm_input |-> "",
     preserve_env |-> FALSE, has_items |-> FALSE, typed |-> None, steps |-> <<>>]

(***************************************************************************)
(* The server process (app/main.py): one event loop runs the route         *)
(* handlers.  A handler of routes/services.py is a coroutine that calls    *)
(* DockerService and, through it, subprocess.run without awaiting          *)
(* anything, so the loop takes the next request when the handler is over.  *)
(***************************************************************************)
MaxRequests == 3

ServerNames == {"n8n", "db"}

ServerRegistries ==
    {[n \in D |-> ProfiledDefinition({}, <<>>)] : D \in {{"n8n", "db"}, {"db"}}}

ServerOps == {"start", "stop", "restart"}

\* the docker compose subcommand of an action
ComposeCommand(op) ==
    CASE op = "start" -> "up"
      [] op = "stop" -> "stop"
      [] OTHER -> "restart"

\* variant: a handler is started while another is running
LoopFree_Always(handlers) == TRUE

\* the event loop can start a handler: none is running
LoopFree(handlers) == handlers = {}

NoServer == [pending |-> {}, handlers |-> {}, inFlight |-> {}, arrived |-> 0,
             responses |-> {}]

(***************************************************************************)
(* State machine of the graph and orchestration requests.  Every request   *)
(* builds its ComposeParser anew (api/deps.py), so a request sees the      *)
(* topology as it is on disk at that moment: services.                     *)
(***************************************************************************)
NoPlan == [raised |-> FALSE, result |-> <<>>, remaining |-> {}, iteration |-> 0]

NoGraphCall == [op |-> "none", selection |-> <<>>, plan |-> NoPlan,
                name |-> "", force |-> FALSE, stop |-> NoStop]

NoValidation == [valid |-> TRUE, errors |-> <<>>, warnings |-> <<>>,
                 auto_enabled |-> <<>>, total_services |-> 0]

NoSelCall == [op |-> "none", selected |-> <<>>, profile |-> "", required |-> <<>>,
              result |-> NoValidation, again |-> <<>>]

InitGraph ==
    /\ scanner = NoScanner
    /\ cleanup = NoCleanup
    /\ server = NoServer
    /\ services \in Registries
    /\ graphCall = NoGraphCall
    /\ selCall = NoSelCall
    /\ orch = NoOrch
    /\ loader = NoLoader

\* the compose documents are edited between two requests: one service is
\* removed, added or given another dependency list
Without(reg, n) == [m \in DOMAIN reg \ {n} |-> reg[m]]

WithDefinition(reg, n, deps) ==
    [m \in DOMAIN reg \cup {n} |-> IF m = n THEN ServiceDefinition(deps) ELSE reg[m]]

EditTopology ==
    \E n \in Names :
        /\ \/ services' = Without(services, n)
           \/ \E deps \in SUBSET Names : services' = WithDefinition(services, n, deps)
        /\ services' # services
        /\ graphCall' = NoGraphCall
        /\ UNCHANGED <<selCall, orch, loader, scanner, cleanup, server>>

GetStartOrder ==
    \E svcs \in SeqsUpTo(Names, MaxSelLen) :
        /\ graphCall' = [NoGraphCall EXCEPT !.op = "get_start_order",
                                            !.selection = svcs,
                                            !.plan = get_start_order(services, svcs)]
        /\ UNCHANGED <<services, selCall, orch, loader, scanner, cleanup, server>>

StopService ==
    \E name \in Names, force \in BOOLEAN, outcome \in DriverOutcomes :
        /\ graphCall' = [NoGraphCall EXCEPT !.op = "stop_service",
                                            !.name = name, !.force = force,
                                            !.stop = stop_service(services, name, force, outcome)]
        /\ UNCHANGED <<services, selCall, orch, loader, scanner, cleanup, server>>

NextGraph == EditTopology \/ GetStartOrder \/ StopService

SpecGraph == InitGraph /\ [][NextGraph]_vars

\* the topologies DependencyGraph.validate_service_selection is called on:
\* nothing loaded, compose files whose edges are those of the policy table,
\* and a compose file with an edge the policy table does not have
SelectionRegistries ==
    {<<>>,
     "n8n" :> ServiceDefinition({"n8n-import"}) @@
         "n8n-import" :> ServiceDefinition({"db"}) @@
         "db" :> ServiceDefinition({"vector"}) @@
         "vector" :> ServiceDefinition({}),
     "n8n" :> ServiceDefinition({"redis"}) @@ "redis" :> ServiceDefinition({})}

(***************************************************************************)
(* State machine of the selection validator.  A client request carries a   *)
(* list of selected names and a profile (api/routes/setup.py); the request *)
(* is then served by get_required_for_selection or validate_selection.     *)
(***************************************************************************)
InitSelection ==
    /\ scanner = NoScanner
    /\ cleanup = NoCleanup
    /\ server = NoServer
    /\ services \in SelectionRegistries
    /\ graphCall = NoGraphCall
    /\ orch = NoOrch
    /\ loader = NoLoader
    /\ \E selected \in SeqsUpTo(SelectableNames, MaxSelected), profile \in Profiles :
           selCall = [NoSelCall EXCEPT !.selected = selected, !.profile = profile]

RequiredForSelection ==
    /\ selCall.op = "none"
    /\ selCall' = [selCall EXCEPT !.op = "get_required_for_selection",
                                  !.required = get_required_for_selection(selCall.selected)]
    /\ UNCHANGED <<services, graphCall, orch, loader, scanner, cleanup, server>>

ValidateSelection ==
    /\ selCall.op = "none"
    /\ selCall' = [selCall EXCEPT !.op = "validate_selection",
                                  !.required = get_required_for_selection(selCall.selected),
                                  !.result = validate_selection(selCall.selected,
                                                                selCall.profile)]
    /\ UNCHANGED <<services, graphCall, orch, loader, scanner, cleanup, server>>

\* the keys of a required dict as a list, in table order or reversed
KeyList(required, reversed) ==
    LET inOrder == Filter(ConfigOrder, DOMAIN required)
    IN IF reversed THEN [i \in DOMAIN inOrder |-> inOrder[Len(inOrder) + 1 - i]]
       ELSE inOrder

\* the client adds every required service to its selection and asks again
Reselect ==
    /\ selCall.op = "get_required_for_selection"
    /\ \E reversed \in BOOLEAN :
        selCall' = [selCall EXCEPT !.op = "reselect",
                        !.again = get_required_for_selection(
                                      selCall.selected \o KeyList(selCall.required, reversed))]
    /\ UNCHANGED <<services, graphCall, orch, loader, scanner, cleanup, server>>

NextSelection == RequiredForSelection \/ ValidateSelection \/ Reselect

SpecSelection == InitSelection /\ [][NextSelection]_vars

(***************************************************************************)
(* State machine of the orchestration requests.  The registry is the one   *)
(* the request's ComposeParser read; one request is followed from the      *)
(* route to its response.                                                  *)
(***************************************************************************)
InitOrch ==
    /\ scanner = NoScanner
    /\ cleanup = NoCleanup
    /\ server = NoServer
    /\ services \in OrchRegistries
    /\ graphCall = NoGraphCall
    /\ selCall = NoSelCall
    /\ orch = NoOrch
    /\ loader = NoLoader

\* POST /{service_name}/start
RequestStart ==
    /\ orch.pc = "idle"
    /\ \E name \in OrchNames, profile \in RequestProfiles,
          environment \in {"private", "public"} :
           orch' = [NoOrch EXCEPT !.pc = "called", !.op = "start", !.call = "start",
                                  !.name = name, !.profile = profile,
                                  !.environment = environment]
    /\ UNCHANGED <<services, graphCall, selCall, loader, scanner, cleanup, server>>

\* POST /{service_name}/stop
RequestStop ==
    /\ orch.pc = "idle"
    /\ \E name \in OrchNames, force \in BOOLEAN, profile \in {None, "cpu"} :
           orch' = [NoOrch EXCEPT !.pc = "called", !.op = "stop", !.call = "stop",
                                  !.name = name, !.force = force, !.profile = profile]
    /\ UNCHANGED <<services, graphCall, selCall, loader, scanner, cleanup, server>>

\* POST /{service_name}/restart
RequestRestart ==
    /\ orch.pc = "idle"
    /\ \E name \in OrchNames, profile \in {None, "cpu"} :
           orch' = [NoOrch EXCEPT !.pc = "called", !.op = "restart",
                                  !.call = "restart", !.name = name,
                                  !.profile = profile]
    /\ UNCHANGED <<services, graphCall, selCall, loader, scanner, cleanup, server>>

\* GET /{service_name}
RequestDetail ==
    /\ orch.pc = "idle"
    /\ \E name \in OrchNames :
           orch' = [NoOrch EXCEPT !.pc = "called", !.op = "detail", !.call = "detail",
                                  !.name = name]
    /\ UNCHANGED <<services, graphCall, selCall, loader, scanner, cleanup, server>>

\* POST /groups/{group_id}/start and /groups/{group_id}/stop
RequestGroup ==
    /\ orch.pc = "idle"
    /\ \E op \in {"start_group", "stop_group"}, group \in GroupIds,
          profile \in {None, "cpu"} :
           orch' = [NoOrch EXCEPT !.pc = "route", !.op = op, !.group = group,
                                  !.profile = profile]
    /\ UNCHANGED <<services, graphCall, selCall, loader, scanner, cleanup, server>>

\* the DockerService method returns resp: a single request answers, a group
\* request records the result and goes on with the next member
MethodReturns(o, resp) ==
    IF o.group = ""
    THEN [o EXCEPT !.pc = "done", !.response = resp,
                   !.status = IF resp.success THEN 200 ELSE 500]
    ELSE [o EXCEPT !.pc = "member", !.response = resp, !.idx = o.idx + 1,
                   !.results = Append(o.results, [service |-> o.name,
                                                  success |-> resp.success])]

\* an exception leaves the DockerService method and the route
MethodRaises(o) == [o EXCEPT !.pc = "done", !.raised = TRUE, !.status = 500]

\* start_service_group / stop_service_group up to the loop
GroupBegin ==
    /\ orch.pc = "route"
    /\ LET groups == get_groups(services)
       IN IF orch.group \notin DOMAIN groups
          THEN orch' = [orch EXCEPT !.pc = "done", !.status = 404]
          ELSE orch' = [orch EXCEPT !.pc = "member", !.idx = 1,
                            !.members = IF orch.op = "start_group"
                                        THEN groups[orch.group]
                                        ELSE StopGroupOrder(groups[orch.group])]
    /\ UNCHANGED <<services, graphCall, selCall, loader, scanner, cleanup, server>>

\* one turn of the loop over the members, and the response after the loop
GroupNext ==
    /\ orch.pc = "member"
    /\ IF orch.idx > Len(orch.members)
       THEN orch' = [orch EXCEPT !.pc = "done", !.status = 200,
                         !.groupSuccess = \A i \in DOMAIN orch.results :
                                              orch.results[i].success]
       ELSE orch' = [orch EXCEPT !.pc = "called",
                         !.call = IF orch.op = "start_group" THEN "start" ELSE "stop",
                         !.name = orch.members[orch.idx],
                         !.force = (orch.op = "stop_group"),
                         !.depsComputed = FALSE, !.dependents = {},
                         !.warning = NoWarning]
    /\ UNCHANGED <<services, graphCall, selCall, loader, scanner, cleanup, server>>

\* DockerService.start_service up to the call of compose_up
StartService ==
    /\ orch.pc = "called" /\ orch.call = "start"
    /\ IF orch.name \notin DOMAIN services
       THEN orch' = MethodReturns(orch, NotFoundResponse("start"))
       ELSE orch' = [orch EXCEPT !.pc = "driver", !.inFlight = orch.inFlight + 1,
                         !.calls = Append(orch.calls,
                             DriverCall("up", orch.name,
                                        ResolveProfile(services[orch.name], orch.profile),
                                        orch.environment))]
    /\ UNCHANGED <<services, graphCall, selCall, loader, scanner, cleanup, server>>

\* DockerService.stop_service up to the warning
StopDependents ==
    /\ orch.pc = "called" /\ orch.call = "stop"
    /\ IF orch.name \notin DOMAIN services
       THEN orch' = MethodReturns(orch, NotFoundResponse("stop"))
       ELSE LET dependents == get_dependents(services, orch.name)
            IN IF dependents.overflow
               THEN orch' = MethodRaises(orch)
               ELSE orch' = [orch EXCEPT !.pc = "dependents", !.depsComputed = TRUE,
                                 !.dependents = dependents.set,
                                 !.warning = IF dependents.set # {} /\ ~orch.force
                                             THEN DependencyWarning(orch.name,
                                                                    dependents.set)
                                             ELSE NoWarning]
    /\ UNCHANGED <<services, graphCall, selCall, loader, scanner, cleanup, server>>

\* DockerService.stop_service: the call of compose_down
StopIssue ==
    /\ orch.pc = "dependents"
    /\ orch' = [orch EXCEPT !.pc = "driver", !.inFlight = orch.inFlight + 1,
                    !.calls = Append(orch.calls,
                                     DriverCall("stop", orch.name, orch.profile, ""))]
    /\ UNCHANGED <<services, graphCall, selCall, loader, scanner, cleanup, server>>

\* DockerService.restart_service up to the call of compose_restart
RestartService ==
    /\ orch.pc = "called" /\ orch.call = "restart"
    /\ IF orch.name \notin DOMAIN services
       THEN orch' = MethodReturns(orch, NotFoundResponse("restart"))
       ELSE orch' = [orch EXCEPT !.pc = "driver", !.inFlight = orch.inFlight + 1,
                         !.calls = Append(orch.calls,
                                          DriverCall("restart", orch.name,
                                                     orch.profile, ""))]
    /\ UNCHANGED <<services, graphCall, selCall, loader, scanner, cleanup, server>>

\* the driver call returns (exit code 0, another exit code) or throws
DriverReturns ==
    /\ orch.pc = "driver"
    /\ \E outcome \in DriverOutcomes :
           orch' = MethodReturns([orch EXCEPT !.inFlight = orch.inFlight - 1,
                                              !.outcome = outcome],
                                 ActionResponse(orch.call, outcome))
    /\ UNCHANGED <<services, graphCall, selCall, loader, scanner, cleanup, server>>

\* DockerService.get_service: dependents and dependencies of the detail view
DetailQuery ==
    /\ orch.pc = "called" /\ orch.call = "detail"
    /\ IF orch.name \notin DOMAIN services
       THEN orch' = [orch EXCEPT !.pc = "done", !.status = 404]
       ELSE LET dependents == get_dependents(services, orch.name)
                dependencies == get_dependencies(services, orch.name)
            IN IF dependents.overflow \/ dependencies.overflow
               THEN orch' = MethodRaises(orch)
               ELSE orch' = [orch EXCEPT !.pc = "done", !.status = 200,
                                 !.depsComputed = TRUE,
                                 !.dependents = dependents.set,
                                 !.dependencies = dependencies.set]
    /\ UNCHANGED <<services, graphCall, selCall, loader, scanner, cleanup, server>>

NextOrch ==
    \/ RequestStart \/ RequestStop \/ RequestRestart \/ RequestDetail \/ RequestGroup
    \/ GroupBegin \/ GroupNext
    \/ StartService \/ StopDependents \/ StopIssue \/ RestartService
    \/ DriverReturns \/ DetailQuery

SpecOrch == InitOrch /\ [][NextOrch]_vars

(***************************************************************************)
(* State machine of the loader: ComposeParser.__init__ and _parse_all.     *)
(***************************************************************************)
InitLoader ==
    /\ scanner = NoScanner
    /\ cleanup = NoCleanup
    /\ server = NoServer
    /\ services = <<>>
    /\ graphCall = NoGraphCall
    /\ selCall = NoSelCall
    /\ orch = NoOrch
    /\ \E main \in Documents, supabase \in Documents :
           loader = [pc |-> "init", main |-> main, supabase |-> supabase]

\* _parse_all: the main compose file, when it exists
ParseMain ==
    /\ loader.pc = "init"
    /\ LET parsed == IF loader.main.kind = "absent"
                     THEN [services |-> services, raised |-> FALSE]
                     ELSE parse_file(services, loader.main, "main")
       IN /\ services' = parsed.services
          /\ loader' = [loader EXCEPT !.pc = IF parsed.raised THEN "aborted" ELSE "main"]
    /\ UNCHANGED <<graphCall, selCall, orch, scanner, cleanup, server>>

\* _parse_all: the Supabase compose file, when it exists
ParseSupabase ==
    /\ loader.pc = "main"
    /\ LET parsed == IF loader.supabase.kind = "absent"
                     THEN [services |-> services, raised |-> FALSE]
                     ELSE parse_file(services, loader.supabase, "supabase")
       IN /\ services' = parsed.services
          /\ loader' = [loader EXCEPT !.pc = IF parsed.raised THEN "aborted" ELSE "loaded"]
    /\ UNCHANGED <<graphCall, selCall, orch, scanner, cleanup, server>>

NextLoader == ParseMain \/ ParseSupabase

SpecLoader == InitLoader /\ [][NextLoader]_vars

(***************************************************************************)
(* State machine of one PortScanner.                                       *)
(***************************************************************************)
InitPorts ==
    /\ services = <<>>
    /\ graphCall = NoGraphCall
    /\ selCall = NoSelCall
    /\ orch = NoOrch
    /\ loader = NoLoader
    /\ cleanup = NoCleanup
    /\ server = NoServer
    /\ \E host \in SUBSET ScanPorts, docker_ports \in SUBSET {65534} :
           scanner = [NoScanner EXCEPT !.host = host, !.docker_ports = docker_ports]

ScanServicePorts ==
    /\ scanner.scans < MaxScans
    /\ \E service_name \in ScanServices, default_ports \in DefaultPorts :
           LET scan == scan_service_ports(scanner, service_name, default_ports)
           IN scanner' = [scanner EXCEPT !.reserved = scan.reserved,
                                         !.results = Append(@, scan.result),
                                         !.scans = @ + 1]
    /\ UNCHANGED <<services, graphCall, selCall, orch, loader, cleanup, server>>

ClearReservedPorts ==
    /\ scanner.results # <<>>
    /\ scanner' = [scanner EXCEPT !.reserved = {}, !.results = <<>>]
    /\ UNCHANGED <<services, graphCall, selCall, orch, loader, cleanup, server>>

NextPorts == ScanServicePorts \/ ClearReservedPorts

SpecPorts == InitPorts /\ [][NextPorts]_vars

(***************************************************************************)
(* State machine of cleanup.py's main.                                     *)
(***************************************************************************)
InitCleanup ==
    /\ services = <<>>
    /\ graphCall = NoGraphCall
    /\ selCall = NoSelCall
    /\ orch = NoOrch
    /\ loader = NoLoader
    /\ scanner = NoScanner
    /\ server = NoServer
    /\ \E dry_run \in BOOLEAN, preserve_env_flag \in BOOLEAN, force \in BOOLEAN,
          leftovers \in Leftovers, env_input \in EnvInputs,
          confirm_input \in ConfirmInputs :
           cleanup = [NoCleanup EXCEPT !.pc = "start", !.dry_run = dry_run,
                          !.preserve_env_flag = preserve_env_flag, !.force = force,
                          !.leftovers = leftovers, !.env_input = env_input,
                          !.confirm_input = confirm_input]

\* lines 353-356: the arguments are parsed and preserve_env gets its default
ParseArgs ==
    /\ cleanup.pc = "start"
    /\ cleanup' = [cleanup EXCEPT
           !.preserve_env = cleanup.preserve_env_flag
                                \/ (~cleanup.force /\ ~cleanup.dry_run),
           !.pc = IF ~cleanup.dry_run /\ ~cleanup.force /\ ~cleanup.preserve_env_flag
                  THEN "ask_env" ELSE "preview"]
    /\ UNCHANGED <<services, graphCall, selCall, orch, loader, scanner, server>>

\* lines 359-362: the operator is asked about .env
AskEnv ==
    /\ cleanup.pc = "ask_env"
    /\ cleanup' = [cleanup EXCEPT
           !.preserve_env = StripLower(cleanup.env_input) \notin {"n", "no"},
           !.pc = "preview"]
    /\ UNCHANGED <<services, graphCall, selCall, orch, loader, scanner, server>>

\* lines 365-374: the preview, and the two exits after it
Preview ==
    /\ cleanup.pc = "preview"
    /\ LET has_items == preview_cleanup(cleanup.leftovers, cleanup.preserve_env)
       IN cleanup' = [cleanup EXCEPT
              !.has_items = has_items,
              !.steps = Append(@, PreviewStep(cleanup.preserve_env)),
              !.pc = IF ~has_items THEN "clean"
                     ELSE IF cleanup.dry_run THEN "dry_run_exit"
                     ELSE IF ~cleanup.force THEN "confirm"
                     ELSE "execute"]
    /\ UNCHANGED <<services, graphCall, selCall, orch, loader, scanner, server>>

\* lines 377-380: the confirmation prompt
Confirm ==
    /\ cleanup.pc = "confirm"
    /\ cleanup' = [cleanup EXCEPT
           !.typed = cleanup.confirm_input,
           !.pc = IF confirm_cleanup(cleanup.confirm_input) THEN "execute"
                  ELSE "cancelled"]
    /\ UNCHANGED <<services, graphCall, selCall, orch, loader, scanner, server>>

\* line 385
CleanupDockerResources ==
    /\ cleanup.pc = "execute"
    /\ cleanup' = [cleanup EXCEPT
           !.steps = Append(@, CleanupStep("cleanup_docker_resources", FALSE)),
           !.pc = "filesystem"]
    /\ UNCHANGED <<services, graphCall, selCall, orch, loader, scanner, server>>

\* line 386
CleanupFilesystem ==
    /\ cleanup.pc = "filesystem"
    /\ cleanup' = [cleanup EXCEPT
           !.steps = Append(@, CleanupStep("cleanup_filesystem", cleanup.preserve_env)),
           !.pc = "complete"]
    /\ UNCHANGED <<services, graphCall, selCall, orch, loader, scanner, server>>

NextCleanup ==
    \/ ParseArgs \/ AskEnv \/ Preview \/ Confirm
    \/ CleanupDockerResources \/ CleanupFilesystem

SpecCleanup == InitCleanup /\ [][NextCleanup]_vars

(***************************************************************************)
(* State machine of the server: requests arrive at any time, the event     *)
(* loop starts their handlers, a handler calls the driver and responds.    *)
(***************************************************************************)
InitServer ==
    /\ services \in ServerRegistries
    /\ graphCall = NoGraphCall
    /\ selCall = NoSelCall
    /\ orch = NoOrch
    /\ loader = NoLoader
    /\ scanner = NoScanner
    /\ cleanup = NoCleanup
    /\ server = NoServer

\* a client sends POST /{service_name}/start, /stop or /restart
Arrive ==
    /\ server.arrived < MaxRequests
    /\ \E op \in ServerOps, name \in ServerNames :
           server' = [server EXCEPT
               !.arrived = @ + 1,
               !.pending = @ \cup {[id |-> server.arrived + 1, op |-> op, name |-> name]}]
    /\ UNCHANGED <<services, graphCall, selCall, orch, loader, scanner, cleanup>>

\* the event loop starts the handler of a pending request
Dispatch ==
    /\ LoopFree(server.handlers)
    /\ \E r \in server.pending :
           server' = [server EXCEPT
               !.pending = @ \ {r},
               !.handlers = @ \cup {[request |-> r, pc |-> "called"]}]
    /\ UNCHANGED <<services, graphCall, selCall, orch, loader, scanner, cleanup>>

\* the handler's DockerService method: not found, or the driver is called
HandlerCallsDriver ==
    /\ \E h \in server.handlers :
           /\ h.pc = "called"
           /\ IF h.request.name \notin DOMAIN services
              THEN server' = [server EXCEPT
                       !.handlers = (@ \ {h}) \cup {[h EXCEPT !.pc = "returned"]}]
              ELSE server' = [server EXCEPT
                       !.handlers = (@ \ {h}) \cup {[h EXCEPT !.pc = "driver"]},
                       !.inFlight = @ \cup {[id |-> h.request.id,
                                             cmd |-> ComposeCommand(h.request.op),
                                             name |-> h.request.name]}]
    /\ UNCHANGED <<services, graphCall, selCall, orch, loader, scanner, cleanup>>

\* subprocess.run returns
HandlerDriverReturns ==
    /\ \E h \in server.handlers :
           /\ h.pc = "driver"
           /\ server' = [server EXCEPT
                  !.handlers = (@ \ {h}) \cup {[h EXCEPT !.pc = "returned"]},
                  !.inFlight = {c \in @ : c.id # h.request.id}]
    /\ UNCHANGED <<services, graphCall, selCall, orch, loader, scanner, cleanup>>

\* the handler returns its response and the loop is free again
Respond ==
    /\ \E h \in server.handlers :
           /\ h.pc = "returned"
           /\ server' = [server EXCEPT
                  !.handlers = @ \ {h},
                  !.responses = @ \cup {h.request.id}]
    /\ UNCHANGED <<services, graphCall, selCall, orch, loader, scanner, cleanup>>

NextServer ==
    \/ Arrive \/ Dispatch \/ HandlerCallsDriver \/ HandlerDriverReturns \/ Respond

SpecServer == InitServer /\ [][NextServer]_vars

(***************************************************************************)
(* Reference notions the properties are stated with: reachability over the *)
(* dependency edges, computed as a least fixed point.                      *)
(***************************************************************************)
\* <<s, d>>: registered service s declares a dependency on d
DepEdges(reg) ==
    UNION {{<<s, d>> : d \in DependsOnKeys(reg, s)} : s \in DOMAIN reg}

RECURSIVE Reach(_, _)
Reach(E, S) ==
    LET N == S \cup {e[2] : e \in {f \in E : f[1] \in S}}
    IN IF N = S THEN S ELSE Reach(E, N)

\* everything s depends on, directly or through a chain
TransDependencies(E, s) == Reach(E, {e[2] : e \in {f \in E : f[1] = s}})

\* everything that depends on s, directly or through a chain
Reversed(E) == {<<e[2], e[1]>> : e \in E}

TransDependents(E, s) == TransDependencies(Reversed(E), s)

Acyclic(reg) == \A s \in DOMAIN reg : s \notin TransDependencies(DepEdges(reg), s)

\* the batches of the last plan, as sets
Batch(i) == Range(graphCall.plan.result[i])

Batches == DOMAIN graphCall.plan.result

Selection == Range(graphCall.selection)

Planned == graphCall.op = "get_start_order"

\* the plan is a partition of the selection into batches, each dependency
\* inside the selection strictly before its dependent
IsOrderedPartition ==
    /\ ~graphCall.plan.raised
    /\ UNION {Batch(i) : i \in Batches} = Selection
    /\ \A i \in Batches : Len(graphCall.plan.result[i]) = Cardinality(Batch(i))
    /\ \A i, j \in Batches : i # j => Batch(i) \cap Batch(j) = {}
    /\ \A i \in Batches : \A v \in Batch(i) \cap DOMAIN services :
           \A d \in DependsOnKeys(services, v) \cap Selection :
               \E j \in Batches : j < i /\ d \in Batch(j)

\* selected registered services with a dependency on a name that is neither
\* registered nor selected
Dangling == {v \in Selection \cap DOMAIN services :
                \E d \in DependsOnKeys(services, v) :
                    d \notin DOMAIN services /\ d \notin Selection}

\* C1 as stated: for every acyclic registry and every selection S,
\* batch_order(S) returns batches that partition S with every in-selection
\* dependency in a strictly earlier batch.
C1_AsStated == (Planned /\ Acyclic(services)) => IsOrderedPartition

\* C1, amended: the same, for every acyclic registry and selection in which
\* every dependency of a selected service names a registered service or a
\* selected name.
C1_OrderedPartition ==
    (Planned /\ Acyclic(services) /\ Dangling = {}) => IsOrderedPartition

C1_Witness ==
    /\ Planned /\ Acyclic(services) /\ Dangling = {}
    /\ Len(graphCall.plan.result) = 3
    /\ Len(graphCall.selection) = 3

\* members of a dependency cycle that lies inside the selection
SelectedEdges == {e \in DepEdges(services) : e[1] \in Selection /\ e[2] \in Selection}

CycleMembers == {v \in Selection : v \in TransDependencies(SelectedEdges, v)}

\* C2: a selection that contains a dependency cycle (a self-dependency
\* included) makes batch_order raise, the stuck subset named by the error
\* holds every cycle member, and no plan is returned.
C2_CycleRaises ==
    (Planned /\ CycleMembers # {}) =>
        /\ graphCall.plan.raised
        /\ CycleMembers \subseteq graphCall.plan.remaining

C2_Witness ==
    /\ Planned /\ Cardinality(CycleMembers) = 2
    /\ graphCall.plan.raised
    /\ Len(graphCall.plan.result) = 1

Stopped == graphCall.op = "stop_service"

\* C3: for a registered service of an acyclic registry, stop(name,
\* force=false) reports exactly the transitive dependents of name in the
\* registry the call runs against, and never name itself.
C3_StopReportsAllDependents ==
    (Stopped /\ ~graphCall.force /\ graphCall.name \in DOMAIN services
        /\ Acyclic(services)) =>
        /\ ~graphCall.stop.raised
        /\ graphCall.stop.warning.dependents =
               TransDependents(DepEdges(services), graphCall.name)
        /\ graphCall.stop.warning.present =
               (TransDependents(DepEdges(services), graphCall.name) # {})
        /\ graphCall.name \notin graphCall.stop.warning.dependents

\* C depends on B depends on A, C not on A: stop(A) reports {B, C}
C3_Witness ==
    /\ Stopped /\ ~graphCall.force /\ graphCall.name = "A"
    /\ Acyclic(services)
    /\ DOMAIN services = Names
    /\ DependsOnKeys(services, "B") = {"A"}
    /\ DependsOnKeys(services, "C") = {"B"}
    /\ graphCall.stop.warning.dependents = {"B", "C"}

\* C10 as stated: a selected service with a dependency on a name that is
\* neither registered nor selected is still planned, the dependency counting
\* as resolved.
C10_AsStated ==
    (Planned /\ Dangling # {}) =>
        /\ ~graphCall.plan.raised
        /\ Dangling \subseteq UNION {Batch(i) : i \in Batches}

\* C10, amended: such a service is never placed in a batch; batch_order
\* raises and the stuck subset named by the error contains the service.
C10_DanglingRaises ==
    (Planned /\ Dangling # {}) =>
        /\ graphCall.plan.raised
        /\ Dangling \subseteq graphCall.plan.remaining
        /\ Dangling \cap UNION {Batch(i) : i \in Batches} = {}

C10_Witness ==
    /\ Planned /\ Dangling # {}
    /\ Acyclic(services)
    /\ graphCall.plan.raised
    /\ Len(graphCall.plan.result) >= 1

(***************************************************************************)
(* Properties of the selection validator.                                  *)
(***************************************************************************)
Required == selCall.op \in {"get_required_for_selection", "validate_selection", "reselect"}

Validated == selCall.op = "validate_selection"

Reselected == selCall.op = "reselect"

\* C4: for every selection every policy entry with required = true is a key
\* of required_for(selection), and for the empty selection every such entry
\* is in validate's auto_enabled.
C4_RequiredAlwaysPresent ==
    /\ Required =>
           \A name \in DOMAIN SERVICE_CONFIGS :
               SERVICE_CONFIGS[name].required => name \in DOMAIN selCall.required
    /\ (Validated /\ selCall.selected = <<>>) =>
           \A name \in DOMAIN SERVICE_CONFIGS :
               SERVICE_CONFIGS[name].required => name \in DOMAIN selCall.result.auto_enabled

\* the empty selection is validated and the five required services are auto-enabled
C4_Witness ==
    /\ Validated /\ selCall.selected = <<>>
    /\ DOMAIN selCall.result.auto_enabled = {"vector", "db", "analytics", "kong", "caddy"}

\* C5 as stated: required_for(S \cup keys(required_for(S))) = required_for(S),
\* as maps from names to reasons.
C5_AsStated == Reselected => selCall.again = selCall.required

\* C5, amended: required_for(S \cup keys(required_for(S))) has the same keys
\* as required_for(S); the reasons attached to a key may differ.
C5_SameKeys == Reselected => DOMAIN selCall.again = DOMAIN selCall.required

C5_Witness ==
    /\ Reselected
    /\ selCall.selected = <<"n8n">>
    /\ DOMAIN selCall.again = DOMAIN selCall.required
    /\ selCall.again # selCall.required

\* C6: validate never rejects: valid is true and errors is empty for every
\* selection and profile, and auto_enabled is the same under every profile.
C6_NeverRejects ==
    Validated =>
        /\ selCall.result.valid = TRUE
        /\ selCall.result.errors = <<>>
        /\ \A p \in Profiles :
               validate_selection(selCall.selected, p).auto_enabled =
                   selCall.result.auto_enabled

\* a profile mismatch (ollama-gpu under cpu) that only produced a warning
C6_Witness ==
    /\ Validated
    /\ selCall.profile = "cpu"
    /\ "ollama-gpu" \in Range(selCall.selected)
    /\ selCall.result.warnings # <<>>
    /\ selCall.result.valid

\* the positions of the selected list whose service has a non-empty profile
\* list without the given profile
Mismatched ==
    {i \in DOMAIN selCall.selected :
        /\ selCall.selected[i] \in DOMAIN SERVICE_CONFIGS
        /\ SERVICE_CONFIGS[selCall.selected[i]].profiles # <<>>
        /\ selCall.profile \notin Range(SERVICE_CONFIGS[selCall.selected[i]].profiles)}

C8_AutoEnabledIsRequiredMinusSelected ==
    Validated =>
        DOMAIN selCall.result.auto_enabled =
            DOMAIN selCall.required \ Range(selCall.selected)

\* a selected service that is itself a required addition, next to additions
\* that were not selected
C8_Witness ==
    /\ Validated
    /\ Range(selCall.selected) \cap DOMAIN selCall.required # {}
    /\ DOMAIN selCall.result.auto_enabled # {}
    /\ "n8n" \in Range(selCall.selected)

\* C9: total_services is the number of distinct services of
\* selection \cup auto_enabled, also for a list that repeats a name.
C9_TotalCountsDistinct ==
    Validated =>
        selCall.result.total_services =
            Cardinality(Range(selCall.selected) \cup DOMAIN selCall.result.auto_enabled)

(***************************************************************************)
(* Properties of the closures, the pass bound and the orchestration        *)
(* requests.                                                               *)
(***************************************************************************)
Answered == orch.pc = "done"

Registered == orch.name \in DOMAIN services

\* C11: descendants(name) and ancestors(name) terminate on every registry,
\* cyclic ones included, and return the services reachable over the dependent
\* (resp. dependency) edges, so that a stop or a detail query on a registered
\* service completes.
C11_ClosuresTerminate ==
    (Answered /\ orch.op \in {"stop", "detail"} /\ Registered) =>
        /\ ~orch.raised
        /\ orch.dependents = TransDependents(DepEdges(services), orch.name)
        /\ orch.op = "detail" =>
               orch.dependencies = TransDependencies(DepEdges(services), orch.name)

\* passes of the while loop: the ones that placed a batch and the one that raised
Passes == graphCall.plan.iteration + (IF graphCall.plan.raised THEN 1 ELSE 0)

\* C12: batch_order stops after at most |selection| + 1 passes, and when
\* selected services are left unplaced the outcome is the error: a returned
\* plan holds every selected service.
C12_BoundedAndNeverPartial ==
    Planned =>
        /\ Passes <= Len(graphCall.selection) + 1
        /\ graphCall.plan.remaining # {} => graphCall.plan.raised
        /\ ~graphCall.plan.raised => UNION {Batch(i) : i \in Batches} = Selection

\* two batches were placed, the third pass found nothing to place
C12_Witness ==
    /\ Planned
    /\ Len(graphCall.selection) = 3
    /\ graphCall.plan.iteration = 2
    /\ graphCall.plan.raised
    /\ graphCall.plan.remaining # {}

SingleAction == orch.op \in {"start", "stop", "restart"}

\* C13: for start, stop and restart of a registered service a driver failure
\* (exit code other than 0, or an exception of the driver call) gives a
\* response with success = false and the driver's error text and no
\* exception leaves the service; success = true only after exit code 0.
C13_DriverFailureCaptured ==
    (Answered /\ SingleAction /\ Registered) =>
        /\ orch.response.success => (orch.outcome = "rc0" /\ orch.calls # <<>>)
        /\ orch.outcome = "rc1" =>
               (~orch.raised /\ ~orch.response.success /\ orch.response.error = Stderr)
        /\ orch.outcome = "exception" =>
               (~orch.raised /\ ~orch.response.success
                   /\ orch.response.error = ExceptionText)

C13_Witness ==
    /\ Answered /\ orch.op = "restart" /\ Registered
    /\ orch.outcome = "exception"
    /\ orch.response.error = ExceptionText
    /\ ~orch.response.success

\* C14: stop on a registered service returns a warning iff descendants(name)
\* is non-empty and force is false, whatever the driver's outcome.
C14_WarningIffDependentsAndNotForce ==
    (Answered /\ orch.op = "stop" /\ Registered) =>
        (orch.warning.present <=>
            (TransDependents(DepEdges(services), orch.name) # {} /\ ~orch.force))

\* C15: every stop of a registered service calls the driver's down for
\* exactly that service exactly once, after the dependents were computed.
C15_StopAlwaysCallsDownOnce ==
    (Answered /\ orch.op = "stop" /\ Registered) =>
        /\ orch.depsComputed
        /\ orch.calls = <<DriverCall("stop", orch.name, orch.profile, "")>>

\* C16: start passes the first declared profile when the service declares
\* profiles and none was supplied, otherwise the supplied profile unchanged,
\* and no profile when none was supplied and none is declared.
C16_ProfilePassedToDriver ==
    (orch.op = "start" /\ orch.calls # <<>>) =>
        LET declared == services[orch.name].profiles
            passed == orch.calls[1].profile
        IN /\ orch.calls[1].cmd = "up"
           /\ orch.calls[1].services = <<orch.name>>
           /\ (declared # <<>> /\ Falsy(orch.profile)) => passed = declared[1]
           /\ ~Falsy(orch.profile) => passed = orch.profile
           /\ declared = <<>> => passed = orch.profile

\* two profiles declared, none supplied: the first one is passed
C16_Witness ==
    /\ orch.op = "start" /\ orch.calls # <<>>
    /\ orch.profile = None
    /\ services[orch.name].profiles = <<"gpu-nvidia", "cpu">>
    /\ orch.calls[1].profile = "gpu-nvidia"

\* the members of the requested group that exist, in the order of the table
DeclaredMembers ==
    IF orch.group \in DOMAIN SERVICE_GROUPS
    THEN Filter(SERVICE_GROUPS[orch.group], DOMAIN services)
    ELSE <<>>

\* C17: start_group calls start once per member, one at a time, in the
\* declared member order.
C17_StartGroupSequentialDeclaredOrder ==
    orch.op = "start_group" =>
        /\ Len(orch.calls) <= Len(DeclaredMembers)
        /\ \A i \in DOMAIN orch.calls :
               /\ orch.calls[i].cmd = "up"
               /\ orch.calls[i].services = <<DeclaredMembers[i]>>
        /\ orch.inFlight \in {0, 1}
        /\ Len(orch.calls) = Len(orch.results) + orch.inFlight
        /\ (Answered /\ orch.status = 200) => Len(orch.calls) = Len(DeclaredMembers)

\* three members started in declared order, one of them failed
C17_Witness ==
    /\ orch.op = "start_group" /\ Answered
    /\ Len(orch.calls) = 3
    /\ orch.calls[1].services = <<"postgres">>
    /\ orch.calls[3].services = <<"neo4j">>
    /\ \E i \in DOMAIN orch.results : ~orch.results[i].success

Loaded == loader.pc = "loaded"

\* a document that fails to parse or has no service section
Bad(doc) ==
    doc.kind \in {"yaml_error", "undecodable", "empty", "no_services",
                  "services_null", "services_text"}

\* C19: loading never aborts because of one bad document: a document that
\* fails to parse or has no service section contributes no entry, and every
\* service the other document defines is in the registry.
C19_BadDocumentSkipped ==
    /\ loader.pc # "aborted"
    /\ (loader.pc = "main" /\ Bad(loader.main)) => services = <<>>
    /\ (Loaded /\ Bad(loader.main)) =>
           /\ DOMAIN services = DefinedNames(loader.supabase)
           /\ \A n \in DOMAIN services : services[n].compose_file = "supabase"
    /\ (Loaded /\ Bad(loader.supabase)) =>
           /\ DOMAIN services = DefinedNames(loader.main)
           /\ \A n \in DOMAIN services : services[n].compose_file = "main"

\* C20: the documents are merged main first, then Supabase: a name both
\* define has one record, the Supabase definition in full; a name only one
\* document defines keeps that definition.
C20_LaterDocumentWins ==
    Loaded =>
        /\ DOMAIN services = DefinedNames(loader.main) \cup DefinedNames(loader.supabase)
        /\ \A n \in DOMAIN services :
               services[n] =
                   IF n \in DefinedNames(loader.supabase)
                   THEN ParsedDefinition(n, loader.supabase.services[n], "supabase")
                   ELSE ParsedDefinition(n, loader.main.services[n], "main")

\* both documents define db, with different images; the registry has the
\* Supabase one
C20_Witness ==
    /\ Loaded
    /\ "db" \in DefinedNames(loader.main) \cap DefinedNames(loader.supabase)
    /\ loader.main.services["db"].image = "postgres:15"
    /\ loader.supabase.services["db"].image = "img"
    /\ services["db"].image = "img"
    /\ services["db"].compose_file = "supabase"
    /\ services["db"].ports = <<>>

\* the configuration a registered name was built from
SourceEntry(n) ==
    IF n \in DefinedNames(loader.supabase)
    THEN loader.supabase.services[n]
    ELSE loader.main.services[n]

\* C21 as stated: every dependency edge of a loaded registry carries a
\* condition in {started, healthy}.
C21_AsStated ==
    Loaded =>
        \A n \in DOMAIN services : \A d \in DOMAIN services[n].depends_on :
            services[n].depends_on[d] \in {"service_started", "service_healthy"}

\* C21: every dependency a configuration lists is an edge of the loaded
\* definition; an edge from a bare list, or from a map entry without a
\* condition, carries started, and an edge from a map entry with an explicit
\* condition carries that condition as written.
C21_ConditionsNormalised ==
    Loaded =>
        \A n \in DOMAIN services :
            LET deps_config == SourceEntry(n).depends_on
            IN /\ DOMAIN services[n].depends_on = DOMAIN deps_config.entries
               /\ \A d \in DOMAIN deps_config.entries :
                      services[n].depends_on[d] =
                          IF \/ deps_config.form = "list"
                             \/ deps_config.entries[d] \in {"nocondition", "null"}
                          THEN "service_started"
                          ELSE deps_config.entries[d]

\* a loaded definition with an explicit healthy condition, an explicit
\* condition that is neither started nor healthy, and a defaulted one
C21_Witness ==
    /\ Loaded
    /\ "n8n" \in DOMAIN services
    /\ DOMAIN services["n8n"].depends_on = {"db", "n8n-import", "redis"}
    /\ services["n8n"].depends_on["db"] = "service_healthy"
    /\ services["n8n"].depends_on["n8n-import"] = "service_completed_successfully"
    /\ services["n8n"].depends_on["redis"] = "service_started"

\* the dependency edges of the policy table and the closure over them
PolicyEdges ==
    UNION {{<<s, d>> : d \in Range(SERVICE_CONFIGS[s].dependencies)} :
              s \in DOMAIN SERVICE_CONFIGS}

PolicyClosure(s) == TransDependencies(PolicyEdges, s)

\* the selected services whose dependency closure contains name
SelectedRequesters(name) ==
    {s \in Range(selCall.selected) : name \in PolicyClosure(s)}

IsPolicyRequired(name) ==
    name \in DOMAIN SERVICE_CONFIGS /\ SERVICE_CONFIGS[name].required

\* C22 as stated: in required_for(selection) every policy entry with
\* required = true is tagged "(core infrastructure)" and every other key is
\* tagged with the selected services whose dependency closure contains it.
C22_AsStated ==
    Required =>
        \A name \in DOMAIN selCall.required :
            IF IsPolicyRequired(name)
            THEN selCall.required[name] = <<"(core infrastructure)">>
            ELSE Range(selCall.required[name]) = SelectedRequesters(name)

\* C22: in required_for(selection) a key that the dependency closure of some
\* selected service contains is tagged with exactly those selected services,
\* policy entries with required = true included; the other keys are policy
\* entries with required = true and are tagged "(core infrastructure)".
C22_TaggedByRequestersElseCore ==
    Required =>
        \A name \in DOMAIN selCall.required :
            IF SelectedRequesters(name) # {}
            THEN Range(selCall.required[name]) = SelectedRequesters(name)
            ELSE /\ IsPolicyRequired(name)
                 /\ selCall.required[name] = <<"(core infrastructure)">>

\* n8n is selected: db is required by policy and tagged with n8n, caddy is
\* tagged as core infrastructure
C22_Witness ==
    /\ Required
    /\ selCall.selected = <<"n8n">>
    /\ selCall.required["db"] = <<"n8n">>
    /\ selCall.required["n8n-import"] = <<"n8n">>
    /\ selCall.required["caddy"] = <<"(core infrastructure)">>

\* C23: required_for(selection) contains, for every selected service, every
\* member of its transitive dependency closure as DependencyGraph computes it
\* over the loaded topology.
C23_ContainsGraphClosure ==
    Required =>
        \A i \in DOMAIN selCall.selected :
            LET ancestors == get_dependencies(services, selCall.selected[i])
            IN ~ancestors.overflow => ancestors.set \subseteq DOMAIN selCall.required

(***************************************************************************)
(* Properties of the port scanner.                                         *)
(***************************************************************************)
\* the suggestions made since the last clear: <<call, port name>>
Suggestions ==
    UNION {{<<i, n>> : n \in DOMAIN scanner.results[i].suggested_ports} :
              i \in DOMAIN scanner.results}

SuggestedPort(x) == scanner.results[x[1]].suggested_ports[x[2]]

\* C24: with no clear_reserved_ports in between, no port number is suggested
\* twice, across calls and port names; a port asked for after it was
\* suggested to another service is reported unavailable, reserved for
\* another service, and a different port is suggested.
C24_NoDuplicateSuggestion ==
    /\ \A x, y \in Suggestions : x # y => SuggestedPort(x) # SuggestedPort(y)
    /\ \A x, y \in Suggestions :
           LET asked == scanner.results[y[1]].ports[y[2]]
           IN (/\ x[1] < y[1]
               /\ scanner.results[x[1]].service_name # scanner.results[y[1]].service_name
               /\ asked.port = SuggestedPort(x)) =>
                  /\ SuggestedPort(y) # asked.port
                  /\ ~asked.available
                  /\ asked.used_by = "reserved for another service"

(***************************************************************************)
(* Properties of cleanup.py.                                               *)
(***************************************************************************)
Destructive == {"cleanup_docker_resources", "cleanup_filesystem"}

DestructiveSteps == {i \in DOMAIN cleanup.steps : cleanup.steps[i].step \in Destructive}

\* C25: the destructive steps run only when the preview found something to
\* delete, --dry-run was not given, and --force was given or the operator
\* typed exactly DELETE at the confirmation prompt; the preview precedes any
\* deletion, and on every other path main ends with nothing deleted.
C25_DestructiveOnlyWhenConfirmed ==
    /\ DestructiveSteps # {} =>
           /\ cleanup.has_items
           /\ ~cleanup.dry_run
           /\ cleanup.force \/ cleanup.typed = "DELETE"
           /\ cleanup.steps[1].step = "preview_cleanup"
           /\ \A i \in DestructiveSteps : ~cleanup.steps[i].dry_run /\ i > 1
    /\ cleanup.pc \in {"clean", "dry_run_exit", "cancelled"} => DestructiveSteps = {}

\* the operator typed DELETE without --force and both steps ran
C25_Witness ==
    /\ cleanup.pc = "complete"
    /\ ~cleanup.force
    /\ cleanup.typed = "DELETE"
    /\ Len(cleanup.steps) = 3
    /\ cleanup.steps[2].step = "cleanup_docker_resources"
    /\ cleanup.steps[3].step = "cleanup_filesystem"

SelectedDependencies(v) ==
    IF v \in DOMAIN services THEN DependsOnKeys(services, v) \cap Selection ELSE {}

\* the place the claim gives v: batch 1 without selected dependencies, else
\* the batch right after the last batch of its selected dependencies
EarliestBatch(v, i) ==
    IF i = 1
    THEN SelectedDependencies(v) = {}
    ELSE /\ \A d \in SelectedDependencies(v) : \E j \in Batches : j < i /\ d \in Batch(j)
         /\ \E d \in SelectedDependencies(v) : d \in Batch(i - 1)

EveryServiceInEarliestBatch ==
    /\ ~graphCall.plan.raised
    /\ \A v \in Selection : \E i \in Batches : v \in Batch(i)
    /\ \A v \in Selection : \A i \in Batches : v \in Batch(i) <=> EarliestBatch(v, i)

\* C26 as stated: batch_order places every selected service in the earliest
\* possible batch, dependencies outside the selection being presumed running
\* (selections with a dependency cycle aside).
C26_AsStated == (Planned /\ CycleMembers = {}) => EveryServiceInEarliestBatch

\* C26, amended: when every dependency of a selected service names a
\* registered service or a selected name, and the selection holds no cycle,
\* batch_order places every selected service in the earliest possible batch:
\* batch 1 iff none of its dependencies is selected, batch i > 1 iff all its
\* selected dependencies are in batches before i and one is in batch i-1.
C26_EarliestBatch ==
    (Planned /\ CycleMembers = {} /\ Dangling = {}) => EveryServiceInEarliestBatch

\* A, B depending on A, C depending on B; B and C are selected, A is not
C26_Witness ==
    /\ Planned
    /\ DOMAIN services = {"A", "B", "C"}
    /\ DependsOnKeys(services, "A") = {}
    /\ DependsOnKeys(services, "B") = {"A"}
    /\ DependsOnKeys(services, "C") = {"B"}
    /\ Selection = {"B", "C"}
    /\ graphCall.plan.result = <<(<<"B">>), (<<"C">>)>>

\* C28: two calls of batch_order with the same registry and the same set of
\* selected names give the same outcome and the same list of batches,
\* whatever the order or repetition of the names in the list, and every
\* batch lists its services in sorted name order.
C28_Deterministic ==
    Planned =>
        /\ \A other \in SeqsUpTo(Names, MaxSelLen) :
               Range(other) = Selection =>
                   LET again == get_start_order(services, other)
                   IN /\ again.raised = graphCall.plan.raised
                      /\ again.result = graphCall.plan.result
        /\ \A i \in Batches : \A k \in 1 .. Len(graphCall.plan.result[i]) - 1 :
               NameRank[graphCall.plan.result[i][k]] <
                   NameRank[graphCall.plan.result[i][k + 1]]

\* the list names B before A and repeats B; one batch, A before B
C28_Witness ==
    /\ Planned
    /\ graphCall.selection = <<"B", "A", "B">>
    /\ graphCall.plan.result = <<(<<"A", "B">>)>>

(***************************************************************************)
(* Further properties of the group requests.                               *)
(***************************************************************************)
\* the position of the stop call issued for a member, 0 if none was issued
StopPosition(x) ==
    IF \E i \in DOMAIN orch.calls : orch.calls[i].services = <<x>>
    THEN CHOOSE i \in DOMAIN orch.calls : orch.calls[i].services = <<x>>
    ELSE 0

\* C27: stop_group stops dependents first: for members x and y present in
\* the registry with y depending on x, directly or through a chain, the
\* stop of y is issued before the stop of x (here: on registries without a
\* dependency cycle).
C27_DependentsStoppedFirst ==
    (orch.op = "stop_group" /\ Acyclic(services)) =>
        \A x, y \in Range(DeclaredMembers) :
            (y \in TransDependents(DepEdges(services), x) /\ StopPosition(x) > 0) =>
                (StopPosition(y) > 0 /\ StopPosition(y) < StopPosition(x))

GroupAction == orch.op \in {"start_group", "stop_group"}

\* C30: a group action attempts every member once even when a member's
\* action failed, returns one result per member in the order attempted, and
\* reports success iff every member succeeded; an unknown group id is
\* reported as not found and no driver call is issued.
C30_GroupNotCutShort ==
    (GroupAction /\ Answered) =>
        IF orch.group \notin DOMAIN get_groups(services)
        THEN orch.status = 404 /\ orch.calls = <<>>
        ELSE /\ orch.status = 200
             /\ Len(orch.calls) = Len(DeclaredMembers)
             /\ Len(orch.results) = Len(orch.calls)
             /\ \A i \in DOMAIN orch.results :
                    <<orch.results[i].service>> = orch.calls[i].services
             /\ \A x \in Range(DeclaredMembers) :
                    Cardinality({i \in DOMAIN orch.calls :
                                    orch.calls[i].services = <<x>>}) = 1
             /\ orch.groupSuccess <=> \A i \in DOMAIN orch.results : orch.results[i].success

====
